---- MODULE Spec2Model ----
(***************************************************************************)
(* A model of src/dispatch.py: the Dispatch engine, its EventHandlers and  *)
(* the coroutines they run on one asyncio event loop.                      *)
(*                                                                         *)
(* The event loop is modelled as it schedules: `ready' is its FIFO queue    *)
(* of callbacks (loop.call_soon).  One step of the model pops the head of  *)
(* `ready' and runs that coroutine up to its next suspension point, as the *)
(* loop does.  The embedding application is the entry "env": whenever its  *)
(* entry is at the head it may call the public API any number of times     *)
(* before it yields.  Callback invocations suspend and resume at times the *)
(* application decides.                                                    *)
(***************************************************************************)
EXTENDS Integers, Sequences, FiniteSets, TLC

\* Event names the application uses.
EventNames == {"a", "b"}

\* Bounds of the model.
MaxHandlers == 1
MaxCallbacks == 1
MaxTriggers == 2
MaxStops == 2
MaxEnv == 1
MaxTasks == 2
MaxParams == 2

\* What the bounds above leave room for: the start() calls that can follow
\* MaxStops stops, the calls suspended at once, and the tasks they spawn (a
\* start() one consumer loop, a stop() one EventHandler.stop() per handler).
MaxStarts == MaxStops + 1
MaxCalls == MaxStops + 1
MaxRuns == MaxCalls
MaxHstops == MaxHandlers + MaxHandlers

VARIABLES
    running,            \* Dispatch.running
    start_shutdown,     \* Dispatch._start_shutdown (asyncio.Event flag)
    shutdown_complete,  \* Dispatch._shutdown_complete
    resume_processing,  \* Dispatch._resume_processing
    w_complete,         \* coroutines suspended in _shutdown_complete.wait(), FIFO
    w_resume,           \* consumer loops suspended in _resume_processing.wait(), FIFO
    queue,              \* Dispatch._queue: deliveries [id, event]
    handlers,           \* Dispatch._handlers: event -> EventHandler object (0: absent)
    eh,                 \* the EventHandler objects created so far
    tasks,              \* the callback tasks spawned so far
    calls,              \* suspended Dispatch.start()/stop() coroutines
    hstops,             \* EventHandler.stop() tasks of a Dispatch.stop()
    runs,               \* Dispatch._run() tasks (consumer loops)
    ready,              \* the event loop's queue of ready callbacks
    ntrig,              \* deliveries enqueued so far
    nstart,             \* start() calls that found the engine not running
    nstop,              \* stop() calls that found the engine running
    dequeued,           \* log of the deliveries the consumer loops dequeued
    restarted,          \* a start() has taken the restart path (lines 81-86)
    result,             \* outcome of the application's latest API call
    bind                \* one callback, the event it subscribes to and a delivery

\* Empty slots and queue entries.
NoCall == [op |-> "none", pc |-> "none", h |-> 0, visited |-> {}, size |-> 0, pending |-> 0]
NoHstop == [pc |-> "none", h |-> 0, call |-> 0, pending |-> 0]
NoResult == [op |-> "none", res |-> "none"]
EnvEntry == [k |-> "env", i |-> 0]
Entry(kind, id) == [k |-> kind, i |-> id]

vars == <<running, start_shutdown, shutdown_complete, resume_processing,
          w_complete, w_resume, queue, handlers, eh, tasks, calls, hstops,
          runs, ready, ntrig, nstart, nstop, dequeued, restarted, result, bind>>

\* The state as one record, so that a step is the sequential composition of
\* the statements it executes.
State ==
    [running |-> running, start_shutdown |-> start_shutdown,
     shutdown_complete |-> shutdown_complete,
     resume_processing |-> resume_processing,
     w_complete |-> w_complete, w_resume |-> w_resume, queue |-> queue,
     handlers |-> handlers, eh |-> eh, tasks |-> tasks, calls |-> calls,
     hstops |-> hstops, runs |-> runs, ready |-> ready, ntrig |-> ntrig,
     nstart |-> nstart, nstop |-> nstop,
     dequeued |-> dequeued, restarted |-> restarted, result |-> result]

Becomes(s) ==
    /\ running' = s.running
    /\ start_shutdown' = s.start_shutdown
    /\ shutdown_complete' = s.shutdown_complete
    /\ resume_processing' = s.resume_processing
    /\ w_complete' = s.w_complete
    /\ w_resume' = s.w_resume
    /\ queue' = s.queue
    /\ handlers' = s.handlers
    /\ eh' = s.eh
    /\ tasks' = s.tasks
    /\ calls' = s.calls
    /\ hstops' = s.hstops
    /\ runs' = s.runs
    /\ ready' = s.ready
    /\ ntrig' = s.ntrig
    /\ nstart' = s.nstart
    /\ nstop' = s.nstop
    /\ dequeued' = s.dequeued
    /\ restarted' = s.restarted
    /\ result' = s.result
    /\ bind' = bind


\* A new EventHandler (EventHandler.__init__).
NewEventHandler(event) ==
    [event |-> event, running |-> FALSE, start_shutdown |-> FALSE,
     shutdown_complete |-> FALSE, callbacks |-> 0, tasks |-> {},
     waiters |-> <<>>]

\* No callback is looked at.
NoBind == [params |-> {}, sig |-> <<>>, subscribed |-> "none", callbacks |-> 0,
           delivery |-> {}, call |-> "none", received |-> {}, catchall |-> {}]

\* Dispatch.__init__
EngineInit ==
    /\ running = FALSE
    /\ start_shutdown = FALSE
    /\ shutdown_complete = FALSE
    /\ resume_processing = FALSE
    /\ w_complete = <<>>
    /\ w_resume = <<>>
    /\ queue = <<>>
    /\ handlers = [e \in EventNames |-> 0]
    /\ eh = <<>>
    /\ tasks = <<>>
    /\ calls = [c \in 1..MaxCalls |-> NoCall]
    /\ hstops = [x \in 1..MaxHstops |-> NoHstop]
    /\ runs = [r \in 1..MaxRuns |-> "none"]
    /\ ready = <<>>
    /\ ntrig = 0
    /\ nstart = 0
    /\ nstop = 0
    /\ dequeued = <<>>
    /\ restarted = FALSE
    /\ result = NoResult

Init == EngineInit /\ bind = NoBind

----
\* Helpers.

Min(S) == CHOOSE x \in S : \A y \in S : x <= y

\* The elements of a finite set of integers in increasing order.
RECURSIVE Sorted(_)
Sorted(S) == IF S = {} THEN <<>> ELSE <<Min(S)>> \o Sorted(S \ {Min(S)})

Range(f) == {f[x] : x \in DOMAIN f}

Registered(s) == {e \in EventNames : s.handlers[e] # 0}

\* dict.values() of _handlers, in insertion order: objects are numbered in
\* the order register() created them.

FreeCalls(s) == {c \in 1..MaxCalls : s.calls[c].op = "none"}
FreeRuns(s) == {r \in 1..MaxRuns : s.runs[r] = "none"}
FreeHstops(s) == {x \in DOMAIN s.hstops : s.hstops[x].pc = "none"}


\* The application's call returned: the awaiting application code continues
\* in the same step of the event loop.
Return(s, op, res) ==
    [s EXCEPT !.result = [op |-> op, res |-> res],
              !.ready = <<EnvEntry>> \o @]

----
\* asyncio.Event.set(): the first set() of a cleared event wakes every
\* waiter, in the order they began to wait; each resumes in a later step.

Set_resume_processing(s) ==
    IF s.resume_processing THEN s
    ELSE [s EXCEPT !.resume_processing = TRUE,
                   !.ready = @ \o [n \in 1..Len(s.w_resume) |-> Entry("run", s.w_resume[n])],
                   !.runs = [r \in DOMAIN @ |-> IF r \in Range(s.w_resume) THEN "woken" ELSE @[r]],
                   !.w_resume = <<>>]

Set_shutdown_complete(s) ==
    IF s.shutdown_complete THEN s
    ELSE [s EXCEPT !.shutdown_complete = TRUE,
                   !.ready = @ \o [n \in 1..Len(s.w_complete) |-> Entry("call", s.w_complete[n])],
                   !.w_complete = <<>>]

\* EventHandler._shutdown_complete.set() of handler object h.
Set_handler_complete(s, h) ==
    IF s.eh[h].shutdown_complete THEN s
    ELSE [s EXCEPT !.eh[h].shutdown_complete = TRUE,
                   !.ready = @ \o [n \in 1..Len(s.eh[h].waiters) |-> Entry("call", s.eh[h].waiters[n])],
                   !.eh[h].waiters = <<>>]

----
\* EventHandler.__call__ and Dispatch._run

\* Dispatch.events
events(s) == Len(s.queue)

\* Variant, to test what the properties depend on: the check of line 164 left out
HandlerNeverRefuses(s, h) == FALSE

\* EventHandler.__call__ refuses the delivery: RuntimeError.
HandlerRefuses(s, h) == ~s.eh[h].running

\* The loop `for callback in self._callbacks': one task per callback, each
\* entered in _tasks and scheduled.
SpawnCallbacks(s, h, d) ==
    LET n == s.eh[h].callbacks
        first == Len(s.tasks)
        new == [j \in 1..n |-> [h |-> h, d |-> d, st |-> "scheduled", waiters |-> <<>>]]
    IN [s EXCEPT !.tasks = @ \o new,
                 !.eh[h].tasks = @ \cup {first + j : j \in 1..n},
                 !.ready = @ \o [j \in 1..n |-> Entry("cb", first + j)]]

\* The log entry of a dequeued delivery: the handler object it was routed to
\* (0: none registered), that handler's state at that moment, the tasks
\* spawned and whether the call returned (ok) or raised.
Logged(s, d, h, spawned, ok) ==
    [s EXCEPT !.dequeued = Append(@,
        [id |-> d.id, event |-> d.event, h |-> h,
         cbs |-> IF h = 0 THEN 0 ELSE s.eh[h].callbacks,
         hrunning |-> h # 0 /\ s.eh[h].running,
         hstopping |-> h # 0 /\ ~s.eh[h].running /\ s.eh[h].start_shutdown,
         running |-> s.running,
         spawned |-> spawned, ok |-> ok,
         restarted |-> s.restarted])]

\* The next delivery of the queue (Queue.get on a non-empty queue does not
\* suspend).
NextDelivery(q) == Head(q)
RestOfQueue(q) == Tail(q)

\* Dispatch._run from the test of `while self.running' to its next
\* suspension, its exit or the exception that ends it.
RECURSIVE RunLoop(_, _)
RunLoop(s, r) ==
    IF ~s.running THEN
        Set_shutdown_complete([s EXCEPT !.runs[r] = "none"])
    ELSE IF events(s) # 0 THEN
        LET d == NextDelivery(s.queue)
            h == s.handlers[d.event]
            s1 == [s EXCEPT !.queue = RestOfQueue(@)]
        IN IF h = 0 THEN RunLoop(Logged(s1, d, 0, 0, TRUE), r)
           ELSE IF HandlerRefuses(s1, h) THEN
               [Logged(s1, d, h, 0, FALSE) EXCEPT !.runs[r] = "none"]
           ELSE RunLoop(SpawnCallbacks(Logged(s1, d, h, s1.eh[h].callbacks, TRUE), h, d.id), r)
    ELSE IF s.resume_processing THEN
        RunLoop([s EXCEPT !.resume_processing = FALSE], r)
    ELSE [s EXCEPT !.runs[r] = "waiting", !.w_resume = Append(@, r)]

\* A step of a consumer loop: its first, or its resumption after
\* _resume_processing.wait() (line 145 clears the event).
RunStep(s, r) ==
    IF s.runs[r] = "woken" THEN RunLoop([s EXCEPT !.resume_processing = FALSE], r)
    ELSE RunLoop(s, r)

----
\* Dispatch.start

\* loop.create_task(self._run()), then start() returns.
CreateRun(s) ==
    LET r == Min(FreeRuns(s))
    IN [s EXCEPT !.runs[r] = "new", !.ready = Append(@, Entry("run", r))]

\* Variant, to test what the properties depend on: lines 201-202 left out,
\* the handler's shutdown signals stay set when it starts again
HandlerKeepsSignals(s, h, cleared) == [s EXCEPT !.eh[h].running = TRUE]

\* EventHandler.start, lines 201-204.
HandlerBecomesRunning(s, h, cleared) ==
    IF cleared
    THEN [s EXCEPT !.eh[h].start_shutdown = FALSE,
                   !.eh[h].shutdown_complete = FALSE,
                   !.eh[h].running = TRUE]
    ELSE [s EXCEPT !.eh[h].running = TRUE]

\* Lines 89-91: `for handler in self._handlers.values(): await handler.start()'
\* then create_task.  visited: the events already iterated; size: the size of
\* the dict when the iteration began (a dict iterator raises RuntimeError
\* once the dict has changed size).
RECURSIVE StartHandlers(_, _, _, _)
StartHandlers(s, c, visited, size) ==
    IF Cardinality(Registered(s)) # size THEN
        Return([s EXCEPT !.calls[c] = NoCall], "start", "RuntimeError")
    ELSE
        LET todo == {s.handlers[e] : e \in Registered(s) \ visited} IN
        IF todo = {} THEN
            Return(CreateRun([s EXCEPT !.calls[c] = NoCall]), "start", "returned")
        ELSE
            LET h == Min(todo)
                v == visited \cup {s.eh[h].event}
            IN IF s.eh[h].running THEN StartHandlers(s, c, v, size)
               ELSE IF s.eh[h].start_shutdown THEN
                   IF ~s.eh[h].shutdown_complete THEN
                       [s EXCEPT !.calls[c] = [op |-> "start", pc |-> "wait_handler", h |-> h,
                                               visited |-> v, size |-> size, pending |-> 0],
                                 !.eh[h].waiters = Append(@, c)]
                   ELSE StartHandlers(HandlerBecomesRunning(s, h, TRUE), c, v, size)
               ELSE StartHandlers(HandlerBecomesRunning(s, h, FALSE), c, v, size)

\* Lines 88-91.
StartRunning(s, c) ==
    StartHandlers([s EXCEPT !.running = TRUE], c, {}, Cardinality(Registered(s)))

\* Variant, to test what the properties depend on: line 85 left out: _shutdown_complete stays set
StartKeepsShutdownComplete(s, c) ==
    StartRunning([s EXCEPT !.start_shutdown = FALSE,
                           !.resume_processing = FALSE,
                           !.restarted = TRUE], c)

\* Lines 84-86, after the shutdown was waited for or found complete.
StartAfterShutdown(s, c) ==
    StartRunning([s EXCEPT !.start_shutdown = FALSE,
                           !.shutdown_complete = FALSE,
                           !.resume_processing = FALSE,
                           !.restarted = TRUE], c)

\* Variant, to test what the properties depend on: lines 77-78 left out: start() on a running engine starts again
StartUnguarded(s, c) ==
    IF s.start_shutdown THEN
        IF ~s.shutdown_complete THEN
            [s EXCEPT !.calls[c] = [NoCall EXCEPT !.op = "start", !.pc = "wait_complete"],
                      !.w_complete = Append(@, c),
                      !.nstart = @ + 1]
        ELSE StartAfterShutdown([s EXCEPT !.nstart = @ + 1], c)
    ELSE StartRunning([s EXCEPT !.nstart = @ + 1], c)

\* Dispatch.start() from its first line; c is the slot the coroutine takes
\* if it suspends.
Start(s, c) ==
    IF s.running THEN Return(s, "start", "noop")
    ELSE IF s.start_shutdown THEN
        IF ~s.shutdown_complete THEN
            [s EXCEPT !.calls[c] = [NoCall EXCEPT !.op = "start", !.pc = "wait_complete"],
                      !.w_complete = Append(@, c),
                      !.nstart = @ + 1]
        ELSE StartAfterShutdown([s EXCEPT !.nstart = @ + 1], c)
    ELSE StartRunning([s EXCEPT !.nstart = @ + 1], c)

----
\* Dispatch.stop and EventHandler.stop

\* Line 133: await self._shutdown_complete.wait()
StopAwaitComplete(s, c) ==
    IF s.shutdown_complete THEN Return([s EXCEPT !.calls[c] = NoCall], "stop", "returned")
    ELSE [s EXCEPT !.calls[c] = [NoCall EXCEPT !.op = "stop", !.pc = "wait_complete"],
                   !.w_complete = Append(@, c)]

\* asyncio.wait(tasks) of line 130 wraps each handler.stop() in a task;
\* order lists the handler objects in the order the tasks are scheduled.
RECURSIVE CreateHstops(_, _, _)
CreateHstops(s, c, order) ==
    IF order = <<>> THEN s
    ELSE LET x == Min(FreeHstops(s))
         IN CreateHstops([s EXCEPT !.hstops[x] = [pc |-> "new", h |-> Head(order),
                                                  call |-> c, pending |-> 0],
                                   !.ready = Append(@, Entry("hstop", x))],
                         c, Tail(order))

\* Dispatch.stop() from its first line.
Stop(s, c, order) ==
    IF ~s.running THEN Return(s, "stop", "noop")
    ELSE
        LET s1 == Set_resume_processing([s EXCEPT !.running = FALSE, !.start_shutdown = TRUE,
                                                  !.nstop = @ + 1])
        IN IF order = <<>> THEN StopAwaitComplete(s1, c)
           ELSE CreateHstops([s1 EXCEPT !.calls[c] = [NoCall EXCEPT !.op = "stop",
                                                      !.pc = "wait_handlers",
                                                      !.pending = Len(order)]],
                             c, order)

\* The EventHandler.stop() task is done: asyncio.wait's callback for the
\* Dispatch.stop() that awaits it is scheduled.
HstopDone(s, x) ==
    [s EXCEPT !.hstops[x] = NoHstop,
              !.ready = Append(@, Entry("stop_wait", s.hstops[x].call))]

\* Line 223, then the task is done.
HstopComplete(s, x) == HstopDone(Set_handler_complete(s, s.hstops[x].h), x)

\* asyncio.wait(active_tasks) of line 221: a done-callback on every task of
\* the snapshot; a task that is already done has it scheduled at once.
RECURSIVE WaitTasks(_, _, _)
WaitTasks(s, x, active) ==
    IF active = <<>> THEN s
    ELSE LET t == Head(active)
         IN WaitTasks(IF s.tasks[t].st = "done"
                      THEN [s EXCEPT !.ready = Append(@, Entry("task_wait", x))]
                      ELSE [s EXCEPT !.tasks[t].waiters = Append(@, x)],
                      x, Tail(active))

\* EventHandler.stop() from its first line.
HandlerStop(s, x) ==
    LET h == s.hstops[x].h IN
    IF ~s.eh[h].running THEN HstopDone(s, x)
    ELSE
        LET s1 == [s EXCEPT !.eh[h].running = FALSE, !.eh[h].start_shutdown = TRUE]
            active == Sorted(s1.eh[h].tasks)
        IN IF active # <<>>
           THEN WaitTasks([s1 EXCEPT !.hstops[x].pc = "wait_tasks",
                                     !.hstops[x].pending = Len(active)], x, active)
           ELSE HstopComplete(s1, x)

HstopStep(s, x) ==
    IF s.hstops[x].pc = "new" THEN HandlerStop(s, x) ELSE HstopComplete(s, x)

\* asyncio.wait's done-callback: the last one wakes the waiting coroutine.
TaskWaitStep(s, x) ==
    IF s.hstops[x].pending = 1
    THEN [s EXCEPT !.hstops[x].pending = 0, !.ready = Append(@, Entry("hstop", x))]
    ELSE [s EXCEPT !.hstops[x].pending = @ - 1]

StopWaitStep(s, c) ==
    IF s.calls[c].pending = 1
    THEN [s EXCEPT !.calls[c].pending = 0, !.ready = Append(@, Entry("call", c))]
    ELSE [s EXCEPT !.calls[c].pending = @ - 1]

\* A suspended start() or stop() resumes.
CallStep(s, c) ==
    LET call == s.calls[c] IN
    IF call.op = "start" THEN
        IF call.pc = "wait_complete" THEN StartAfterShutdown(s, c)
        ELSE StartHandlers(HandlerBecomesRunning(s, call.h, TRUE), c, call.visited, call.size)
    ELSE
        IF call.pc = "wait_handlers" THEN StopAwaitComplete(s, c)
        ELSE Return([s EXCEPT !.calls[c] = NoCall], "stop", "returned")

----
\* Callback tasks

\* The callback invocation completes (returns or raises): its done-callbacks
\* are scheduled, _task_done_callback first.
TaskCompletes(s, t) ==
    [s EXCEPT !.tasks[t].st = "done",
              !.tasks[t].waiters = <<>>,
              !.ready = @ \o <<Entry("task_done", t)>>
                          \o [n \in 1..Len(s.tasks[t].waiters) |-> Entry("task_wait", s.tasks[t].waiters[n])]]

\* Variant, to test what the properties depend on: line 179 left out, a
\* completed task stays in _tasks
TaskDoneKeeps(s, t) == s

\* EventHandler._task_done_callback
TaskDoneCallback(s, t) == [s EXCEPT !.eh[s.tasks[t].h].tasks = @ \ {t}]

----
\* The synchronous API of Dispatch

\* Variant, to test what the properties depend on: the delivery is put at the front of the queue
TriggerAtFront(s, event) ==
    Set_resume_processing([s EXCEPT !.queue = <<[id |-> s.ntrig + 1, event |-> event]>> \o @,
                                    !.ntrig = @ + 1,
                                    !.result = [op |-> "trigger", res |-> "ok"]])

\* Dispatch.trigger
Trigger(s, event) ==
    Set_resume_processing([s EXCEPT !.queue = Append(@, [id |-> s.ntrig + 1, event |-> event]),
                                    !.ntrig = @ + 1,
                                    !.result = [op |-> "trigger", res |-> "ok"]])

\* Variant, to test what the properties depend on: lines 53-54 left out,
\* register() of a registered name replaces its handler
RegisterReplaces(s, event) ==
    [s EXCEPT !.eh = Append(@, NewEventHandler(event)),
              !.handlers[event] = Len(s.eh) + 1,
              !.result = [op |-> "register", res |-> "ok"]]

\* Dispatch.register
Register(s, event) ==
    IF s.handlers[event] # 0
    THEN [s EXCEPT !.result = [op |-> "register", res |-> "ValueError"]]
    ELSE [s EXCEPT !.eh = Append(@, NewEventHandler(event)),
                   !.handlers[event] = Len(s.eh) + 1,
                   !.result = [op |-> "register", res |-> "ok"]]

\* Variant, to test what the properties depend on: unregister() refuses a
\* running engine, as test_unregister_running expects
UnregisterStoppedOnly(s, event) ==
    IF s.running
    THEN [s EXCEPT !.result = [op |-> "unregister", res |-> "RuntimeError"]]
    ELSE [s EXCEPT !.handlers[event] = 0,
                   !.result = [op |-> "unregister", res |-> "ok"]]

\* Dispatch.unregister
Unregister(s, event) ==
    [s EXCEPT !.handlers[event] = 0,
              !.result = [op |-> "unregister", res |-> "ok"]]

\* Variant, to test what the properties depend on: lines 33-34 left out, on()
\* of an unknown event returns a decorator that does nothing
OnUnchecked(s, event) ==
    IF s.handlers[event] = 0
    THEN [s EXCEPT !.result = [op |-> "on", res |-> "ok"]]
    ELSE [s EXCEPT !.eh[s.handlers[event]].callbacks = @ + 1,
                   !.result = [op |-> "on", res |-> "ok"]]

\* Dispatch.on(event)(callback), for a callback the event's parameters satisfy:
\* EventHandler.register appends it.
On(s, event) ==
    IF s.handlers[event] = 0
    THEN [s EXCEPT !.result = [op |-> "on", res |-> "ValueError"]]
    ELSE [s EXCEPT !.eh[s.handlers[event]].callbacks = @ + 1,
                   !.result = [op |-> "on", res |-> "ok"]]

\* Lines 101-102: `while self.events: self._queue.get_nowait()'
RECURSIVE Drain(_)
Drain(s) == IF events(s) # 0 THEN Drain([s EXCEPT !.queue = Tail(@)]) ELSE s

\* Variant, to test what the properties depend on: lines 99-100 left out: clear() drains a running engine's queue
ClearUnguarded(s) == [Drain(s) EXCEPT !.result = [op |-> "clear", res |-> "ok"]]

\* Dispatch.clear
Clear(s) ==
    IF s.running
    THEN [s EXCEPT !.result = [op |-> "clear", res |-> "RuntimeError"]]
    ELSE [Drain(s) EXCEPT !.result = [op |-> "clear", res |-> "ok"]]

----
\* Binding a callback to the parameters of an event: validate_func and
\* partial_bind.  A signature is the sequence of the callback's parameters,
\* each with its name, its kind (inspect.Parameter.kind) and whether it has
\* a default.  A value is "given" (the delivery's value for that key),
\* "default" (the callback's own default) or "None".

ParamNames == {"foo", "bar", "baz"}
Kinds == {"POSITIONAL_ONLY", "POSITIONAL_OR_KEYWORD", "VAR_POSITIONAL",
          "KEYWORD_ONLY", "VAR_KEYWORD"}
KindRank(kind) ==
    CASE kind = "POSITIONAL_ONLY" -> 0
      [] kind = "POSITIONAL_OR_KEYWORD" -> 1
      [] kind = "VAR_POSITIONAL" -> 2
      [] kind = "KEYWORD_ONLY" -> 3
      [] kind = "VAR_KEYWORD" -> 4

\* The signatures a Python function can have: distinct names, kinds in
\* Python's order, one *args and one **kwargs at most and without default,
\* no positional parameter without default after one with a default.
ValidSignature(sig) ==
    /\ \A i, j \in 1..Len(sig) : i < j =>
        /\ sig[i].name # sig[j].name
        /\ KindRank(sig[i].kind) <= KindRank(sig[j].kind)
        /\ sig[i].kind \in {"VAR_POSITIONAL", "VAR_KEYWORD"} => sig[i].kind # sig[j].kind
        /\ (KindRank(sig[j].kind) <= 1 /\ sig[i].default) => sig[j].default
    /\ \A i \in 1..Len(sig) :
        sig[i].kind \in {"VAR_POSITIONAL", "VAR_KEYWORD"} => ~sig[i].default

Parameters == [name : ParamNames, kind : Kinds, default : BOOLEAN]
Signatures ==
    {sig \in UNION {[1..n -> Parameters] : n \in 0..MaxParams} : ValidSignature(sig)}

\* validate_func from line 238, at parameter i of the signature; expected
\* is the set of line 237 less the names line 261 removed.
RECURSIVE ValidateParams(_, _, _, _)
ValidateParams(sig, i, params, expected) ==
    IF i > Len(sig) THEN
        IF expected \ params # {} THEN "ValueError" ELSE "ok"
    ELSE IF sig[i].kind = "VAR_POSITIONAL" THEN "ValueError"
    ELSE IF sig[i].kind = "VAR_KEYWORD" THEN
        IF sig[i].name \in params THEN "ValueError"
        ELSE ValidateParams(sig, i + 1, params, expected \ {sig[i].name})
    ELSE ValidateParams(sig, i + 1, params, expected)

\* Variant, to test what the properties depend on: lines 250-258 left out, a
\* **kwargs named like a parameter of the event is accepted
ValidateWithoutMasking(sig, params) ==
    IF \E i \in 1..Len(sig) : sig[i].kind = "VAR_POSITIONAL" THEN "ValueError"
    ELSE IF {sig[i].name : i \in {j \in 1..Len(sig) : sig[j].kind # "VAR_KEYWORD"}} \ params # {}
    THEN "ValueError"
    ELSE "ok"

validate_func(sig, params) ==
    ValidateParams(sig, 1, params, {sig[i].name : i \in 1..Len(sig)})

\* EventHandler.register: validate, wrap, append.
HandlerRegister(b) ==
    IF validate_func(b.sig, b.params) = "ok"
    THEN [b EXCEPT !.subscribed = "ok", !.callbacks = @ + 1]
    ELSE [b EXCEPT !.subscribed = "ValueError"]

\* partial_bind, lines 278-285: the value each parameter has when the
\* delivery does not give one.
Base(sig) ==
    {<<sig[i].name, IF sig[i].default THEN "default" ELSE "None">> : i \in 1..Len(sig)}

\* wrapper, lines 288-293: the base, with the delivery's value for each key
\* of the base that the delivery has.
Unbound(sig, delivery) ==
    {IF p[1] \in delivery THEN <<p[1], "given">> ELSE p : p \in Base(sig)}

\* sig.bind(**unbound) of line 294 and the call of line 295.  Every
\* parameter is passed by keyword: a positional-only parameter refuses that
\* (TypeError); the keys that name *args or **kwargs themselves are left
\* over and go to **kwargs, or are refused when there is none.
Bind(sig, unbound) ==
    LET named == {i \in 1..Len(sig) : sig[i].kind \notin {"VAR_POSITIONAL", "VAR_KEYWORD"}}
        left == {p \in unbound : \A i \in named : sig[i].name # p[1]}
    IN IF \E i \in named : sig[i].kind = "POSITIONAL_ONLY" THEN
           [call |-> "TypeError", received |-> {}, catchall |-> {}]
       ELSE IF left # {} /\ \A i \in 1..Len(sig) : sig[i].kind # "VAR_KEYWORD" THEN
           [call |-> "TypeError", received |-> {}, catchall |-> {}]
       ELSE [call |-> "called",
             received |-> {p \in unbound : \E i \in named : sig[i].name = p[1]},
             catchall |-> left]

\* The wrapper partial_bind returns, called with a delivery's params (the
\* set of its keys).
wrapper(b, delivery) ==
    LET out == Bind(b.sig, Unbound(b.sig, delivery))
    IN [b EXCEPT !.delivery = delivery, !.call = out.call,
                 !.received = out.received, !.catchall = out.catchall]

\* The engine's variables stay as they are.
EngineUnchanged ==
    UNCHANGED <<running, start_shutdown, shutdown_complete, resume_processing,
                w_complete, w_resume, queue, handlers, eh, tasks, calls, hstops,
                runs, ready, ntrig, nstart, nstop, dequeued, restarted, result>>

\* An event is registered with some parameters and a callback is defined.
BindInit ==
    /\ EngineInit
    /\ \E params \in SUBSET ParamNames, sig \in Signatures :
        bind = [NoBind EXCEPT !.params = params, !.sig = sig]

\* dispatch.on(event)(callback)
Subscribe ==
    /\ bind.subscribed = "none"
    /\ bind' = HandlerRegister(bind)
    /\ EngineUnchanged

\* A delivery for the event is routed to the handler, whose task calls the
\* wrapper of the callback with the delivery's params.
Deliver ==
    /\ bind.callbacks > 0
    /\ bind.call = "none"
    /\ \E delivery \in SUBSET ParamNames : bind' = wrapper(bind, delivery)
    /\ EngineUnchanged

BindNext ==
    \/ Subscribe
    \/ Deliver

BindSpec == BindInit /\ [][BindNext]_vars

----
\* The steps of the event loop

EnvHead == ready # <<>> /\ Head(ready).k = "env"
HeadIs(kind) == ready # <<>> /\ Head(ready).k = kind

\* The state with the head of the ready queue taken off to be run.
Popped == [State EXCEPT !.ready = Tail(@), !.result = NoResult]

\* The application becomes ready to run (a timer, I/O, a task of its own).
EnvArrive ==
    /\ Cardinality({n \in 1..Len(ready) : ready[n].k = "env"}) < MaxEnv
    /\ ready' = Append(ready, EnvEntry)
    /\ UNCHANGED <<running, start_shutdown, shutdown_complete, resume_processing,
                   w_complete, w_resume, queue, handlers, eh, tasks, calls, hstops,
                   runs, ntrig, nstart, nstop, dequeued, restarted, result, bind>>

\* The application yields to the event loop.
EnvDone ==
    /\ EnvHead
    /\ Becomes(Popped)

EnvTrigger ==
    /\ EnvHead
    /\ ntrig < MaxTriggers
    /\ \E e \in EventNames : Becomes(Trigger(State, e))

EnvRegister ==
    /\ EnvHead
    /\ \E e \in EventNames :
        /\ handlers[e] = 0 => Len(eh) < MaxHandlers
        /\ Becomes(Register(State, e))

EnvUnregister ==
    /\ EnvHead
    /\ \E e \in EventNames : Becomes(Unregister(State, e))

EnvOn ==
    /\ EnvHead
    /\ \E e \in EventNames :
        /\ handlers[e] # 0 => eh[handlers[e]].callbacks < MaxCallbacks
        /\ Becomes(On(State, e))

EnvClear ==
    /\ EnvHead
    /\ Becomes(Clear(State))

\* The application calls start(); the call runs to its first suspension.
EnvStart ==
    /\ EnvHead
    /\ FreeCalls(State) # {}
    /\ FreeRuns(State) # {}
    /\ ~running => nstart < MaxStarts
    /\ Becomes(Start(Popped, Min(FreeCalls(State))))

Perms(S) ==
    {f \in [1..Cardinality(S) -> S] : \A i, j \in 1..Cardinality(S) : f[i] = f[j] => i = j}

\* The application calls stop().
EnvStop ==
    /\ EnvHead
    /\ FreeCalls(State) # {}
    /\ Cardinality(FreeHstops(State)) >= Cardinality(Registered(State))
    /\ running => nstop < MaxStops
    /\ \E order \in Perms({handlers[e] : e \in Registered(State)}) :
        Becomes(Stop(Popped, Min(FreeCalls(State)), order))

\* A consumer loop runs.
RunTask ==
    /\ HeadIs("run")
    /\ Becomes(RunStep(Popped, Head(ready).i))

\* A suspended start() or stop() runs.
CallTask ==
    /\ HeadIs("call")
    /\ calls[Head(ready).i].op = "start" => FreeRuns(State) # {}
    /\ Becomes(CallStep(Popped, Head(ready).i))

\* An EventHandler.stop() task runs.
HstopTask ==
    /\ HeadIs("hstop")
    /\ Becomes(HstopStep(Popped, Head(ready).i))

TaskWait ==
    /\ HeadIs("task_wait")
    /\ Becomes(TaskWaitStep(Popped, Head(ready).i))

StopWait ==
    /\ HeadIs("stop_wait")
    /\ Becomes(StopWaitStep(Popped, Head(ready).i))

\* A callback invocation runs: it completes, or suspends on something of
\* its own (a sleep, I/O).
CallbackTask ==
    /\ HeadIs("cb")
    /\ \/ Becomes(TaskCompletes(Popped, Head(ready).i))
       \/ Becomes([Popped EXCEPT !.tasks[Head(ready).i].st = "suspended"])

\* What a suspended callback invocation waits for happens.
CallbackResume ==
    \E t \in DOMAIN tasks :
        /\ tasks[t].st = "suspended"
        /\ Becomes([State EXCEPT !.tasks[t].st = "scheduled",
                                 !.ready = Append(@, Entry("cb", t))])

TaskDone ==
    /\ HeadIs("task_done")
    /\ Becomes(TaskDoneCallback(Popped, Head(ready).i))

Next ==
    \/ EnvArrive
    \/ EnvDone
    \/ EnvTrigger
    \/ EnvRegister
    \/ EnvUnregister
    \/ EnvOn
    \/ EnvClear
    \/ EnvStart
    \/ EnvStop
    \/ RunTask
    \/ CallTask
    \/ HstopTask
    \/ TaskWait
    \/ StopWait
    \/ CallbackTask
    \/ CallbackResume
    \/ TaskDone

Spec == Init /\ [][Next]_vars

\* The application awaits each start() and stop() before it makes the next
\* such call (as src/test.py does); everything else is as in Spec.
NoCallPending == \A c \in 1..MaxCalls : calls[c].op = "none"

SeqNext ==
    \/ EnvArrive
    \/ EnvDone
    \/ EnvTrigger
    \/ EnvRegister
    \/ EnvUnregister
    \/ EnvOn
    \/ EnvClear
    \/ (NoCallPending /\ EnvStart)
    \/ (NoCallPending /\ EnvStop)
    \/ RunTask
    \/ CallTask
    \/ HstopTask
    \/ TaskWait
    \/ StopWait
    \/ CallbackTask
    \/ CallbackResume
    \/ TaskDone

SeqSpec == Init /\ [][SeqNext]_vars

\* Up to MaxTasks tasks of the application are ready at once, and all they
\* do is start and stop the engine.
TaskArrive ==
    /\ Cardinality({n \in 1..Len(ready) : ready[n].k = "env"}) < MaxTasks
    /\ ready' = Append(ready, EnvEntry)
    /\ UNCHANGED <<running, start_shutdown, shutdown_complete, resume_processing,
                   w_complete, w_resume, queue, handlers, eh, tasks, calls, hstops,
                   runs, ntrig, nstart, nstop, dequeued, restarted, result, bind>>

LifecycleNext ==
    \/ TaskArrive
    \/ EnvDone
    \/ EnvStart
    \/ EnvStop
    \/ RunTask
    \/ CallTask

LifecycleSpec == Init /\ [][LifecycleNext]_vars

----
\* Properties

LiveRuns == {r \in 1..MaxRuns : runs[r] # "none"}
InFlight == {t \in DOMAIN tasks : tasks[t].st # "done"}
RegisteredHandlers == {handlers[e] : e \in Registered(State)}
QueueIds == {queue[n].id : n \in 1..Len(queue)}
DequeuedIds == {dequeued[n].id : n \in 1..Len(dequeued)}

\* C1: deliveries are dequeued and routed in the order trigger enqueued them
\* (ids number the triggers): the log of dequeued deliveries followed by
\* the queue is in strictly increasing order of id, whatever callbacks are in
\* flight and whatever start/stop calls were made in between.
C1_Fifo ==
    LET all == [n \in 1..Len(dequeued) |-> dequeued[n].id] \o [n \in 1..Len(queue) |-> queue[n].id]
    IN \A i, j \in 1..Len(all) : i < j => all[i] < all[j]

\* Two deliveries were dequeued, in different running periods, while a
\* callback of the first is still in flight.
C1_Witness ==
    /\ Len(dequeued) >= 2
    /\ dequeued[1].restarted # dequeued[2].restarted
    /\ \E t \in InFlight : tasks[t].d = dequeued[1].id

\* C2: no delivery is lost or duplicated: a delivery is dequeued at most
\* once, never while the engine is not running, and one dequeued for a
\* registered event spawns exactly one invocation per callback bound to the
\* handler.
C2_NoLossNoDup ==
    /\ \A i, j \in 1..Len(dequeued) : dequeued[i].id = dequeued[j].id => i = j
    /\ QueueIds \cap DequeuedIds = {}
    /\ \A n \in 1..Len(dequeued) :
        /\ dequeued[n].running
        /\ dequeued[n].h # 0 => dequeued[n].spawned = dequeued[n].cbs

\* C3: when a stop() returns, no registered handler has a task outstanding
\* and clear() does not fail.
C3_StopDrained ==
    result.op = "stop" =>
        /\ \A h \in RegisteredHandlers : eh[h].tasks = {}
        /\ Clear(State).result.res = "ok"

\* C4 (as a safety property): when nothing is scheduled on the event loop
\* and no callback invocation is in flight, no stop() is still suspended;
\* otherwise that stop() cannot return unless the application calls again.
Quiescent == ready = <<>> /\ InFlight = {}
C4_StopReturns ==
    Quiescent => \A c \in 1..MaxCalls : calls[c].op # "stop"

\* C5 (under SeqSpec): a start() that restarts the engine returns with the
\* engine running, every registered handler running with its shutdown
\* signals cleared, and exactly one consumer loop; a stop() that found the
\* engine running returns with the engine not running and no consumer loop
\* left; and a handler refuses a delivery only if it was never started
\* (registered while the engine was running), in any running period.
C5_Restart ==
    /\ (result = [op |-> "start", res |-> "returned"]) =>
        /\ running /\ ~start_shutdown /\ ~shutdown_complete
        /\ Cardinality(LiveRuns) = 1
        /\ \A h \in RegisteredHandlers :
            eh[h].running /\ ~eh[h].start_shutdown /\ ~eh[h].shutdown_complete
    /\ (result = [op |-> "stop", res |-> "returned"]) =>
        /\ ~running /\ start_shutdown /\ shutdown_complete
        /\ LiveRuns = {}
    /\ \A n \in 1..Len(dequeued) :
        (dequeued[n].h # 0 /\ ~dequeued[n].ok) => ~dequeued[n].hstopping

\* The second stop() returned, after a delivery of the second running period
\* spawned its callbacks.
C5_Witness ==
    /\ result = [op |-> "stop", res |-> "returned"]
    /\ nstop = 2
    /\ \E n \in 1..Len(dequeued) : dequeued[n].restarted /\ dequeued[n].spawned > 0

\* The state but for the outcome reported to the application.
Same(s, u) == [s EXCEPT !.result = NoResult] = [u EXCEPT !.result = NoResult]

\* C6: start() on a running engine and stop() on an engine that is not
\* running change nothing.
C6_Idempotent ==
    EnvHead =>
        /\ running => \A c \in 1..MaxCalls : Same(Start(Popped, c), State)
        /\ ~running => \A c \in 1..MaxCalls :
                \A order \in Perms(RegisteredHandlers) : Same(Stop(Popped, c, order), State)

\* A start() was made on an engine that the one start() before it left
\* running with its consumer loop.
C6_Witness ==
    /\ EnvHead
    /\ result = [op |-> "start", res |-> "noop"]
    /\ nstart = 1 /\ nstop = 0 /\ running /\ Cardinality(LiveRuns) = 1

\* C7: at most one consumer loop is alive.
C7_OneLoop == Cardinality(LiveRuns) <= 1

\* C8: a delivery is dequeued only while the engine is running and never
\* routed to a handler whose stop has begun, and while the engine is not
\* running the queue shrinks only by clear().
C8_StopOrdering ==
    [][/\ \A n \in 1..Len(dequeued') :
            n > Len(dequeued) => (running /\ dequeued'[n].running /\ ~dequeued'[n].hstopping)
       /\ (~running /\ Len(queue') < Len(queue)) => result'.op = "clear"]_vars

\* C9: a handler that is not running spawns nothing: the delivery raises,
\* and every task spawned was spawned by a running handler.
C9_NoSpawnUnlessRunning ==
    /\ \A n \in 1..Len(dequeued) :
        (dequeued[n].h # 0 /\ ~dequeued[n].hrunning) =>
            (~dequeued[n].ok /\ dequeued[n].spawned = 0)
    /\ \A t \in DOMAIN tasks :
        \E n \in 1..Len(dequeued) :
            dequeued[n].id = tasks[t].d /\ dequeued[n].h = tasks[t].h /\ dequeued[n].hrunning
    /\ \A h \in DOMAIN eh : eh[h].tasks \subseteq {t \in DOMAIN tasks : tasks[t].h = h}

\* A handler with a callback was asked to deliver while not running.
C9_Witness ==
    \E n \in 1..Len(dequeued) :
        dequeued[n].h # 0 /\ ~dequeued[n].hrunning /\ dequeued[n].cbs > 0

\* C10: clear() on a running engine raises and changes nothing; otherwise
\* it empties the queue and changes nothing else.
C10_Clear ==
    /\ running => Clear(State) = [State EXCEPT !.result = [op |-> "clear", res |-> "RuntimeError"]]
    /\ ~running => Clear(State) = [State EXCEPT !.queue = <<>>,
                                                !.result = [op |-> "clear", res |-> "ok"]]
    /\ result = [op |-> "clear", res |-> "ok"] => (events(State) = 0 /\ ~running)
    /\ result = [op |-> "clear", res |-> "RuntimeError"] => running

\* After a stop(), clear() emptied the queue of the delivery the consumer
\* loop had not dequeued.
C10_Witness ==
    /\ result = [op |-> "clear", res |-> "ok"]
    /\ ntrig = 2 /\ Len(dequeued) = 1 /\ nstop = 1

\* Names the application may use that are not registered.
UnknownEvents == EventNames \ Registered(State)
\* on() and trigger() of a name that is not registered, and the log of the
\* deliveries dropped.
C11_OnAndTrigger ==
    /\ \A e \in UnknownEvents :
        /\ On(State, e) = [State EXCEPT !.result = [op |-> "on", res |-> "ValueError"]]
        /\ Trigger(State, e).result.res = "ok"
        /\ events(Trigger(State, e)) = events(State) + 1
        /\ Trigger(State, e).queue[events(State) + 1].event = e
    /\ \A n \in 1..Len(dequeued) :
        dequeued[n].h = 0 => (dequeued[n].ok /\ dequeued[n].spawned = 0)

\* The last delivery a step of a consumer loop dequeued was dropped: the
\* loop found the queue empty after it and waits for the next trigger.
DropThenWait ==
    (HeadIs("run") /\ Len(dequeued') > Len(dequeued)
        /\ dequeued'[Len(dequeued')].h = 0) =>
            (runs'[Head(ready).i] = "waiting" /\ queue' = <<>> /\ running')

\* C11: on() of a name that is not registered raises ValueError and changes
\* nothing; trigger() of such a name never fails, in any state of the
\* engine, and the queue grows by one; a delivery dequeued for a name that is
\* not registered is dropped without error, and the consumer loop goes on:
\* the step that drops it ends with the loop waiting on an empty queue or
\* with a later delivery dequeued.
C11_UnknownEvent == [](C11_OnAndTrigger) /\ [][DropThenWait]_vars

\* A delivery for an unknown name was dropped and a later delivery then
\* spawned its callback.
C11_Witness ==
    /\ Len(dequeued) = 2
    /\ dequeued[1].h = 0 /\ dequeued[1].running
    /\ dequeued[2].h # 0 /\ dequeued[2].spawned > 0

\* C12: register() of a name that is registered raises ValueError and
\* changes nothing: the registry, the handler object, its callbacks, its
\* running flag and its outstanding tasks are as before.
C12_RegisterTwice ==
    /\ \A e \in Registered(State) :
        Register(State, e) = [State EXCEPT !.result = [op |-> "register", res |-> "ValueError"]]
    /\ result = [op |-> "register", res |-> "ValueError"] => Registered(State) # {}

\* register() was refused for a name whose handler is running with a
\* callback bound and an invocation of it outstanding.
C12_Witness ==
    /\ result = [op |-> "register", res |-> "ValueError"]
    /\ \E e \in Registered(State) :
        LET h == eh[handlers[e]]
        IN h.running /\ h.callbacks > 0 /\ h.tasks # {}

\* The consumer loops that are scheduled to run.
ScheduledRuns == {r \in 1..MaxRuns : runs[r] \in {"new", "woken"}}

C14_RunningRegistry ==
    running =>
        \A e \in EventNames :
            /\ Register(State, e).result.res = "RuntimeError"
            /\ Register(State, e).handlers = handlers
            /\ Unregister(State, e).result.res = "RuntimeError"
            /\ Unregister(State, e).handlers = handlers

\* The parameters of the callback's signature of the given kinds.
OfKind(kinds) == {i \in 1..Len(bind.sig) : bind.sig[i].kind \in kinds}

\* The callback can be bound to the event: no *args, a **kwargs not named
\* like a parameter of the event, every other name a parameter of the event.
Bindable ==
    /\ OfKind({"VAR_POSITIONAL"}) = {}
    /\ \A i \in OfKind({"VAR_KEYWORD"}) : bind.sig[i].name \notin bind.params
    /\ \A i \in OfKind(Kinds \ {"VAR_POSITIONAL", "VAR_KEYWORD"}) :
        bind.sig[i].name \in bind.params

NamedInputs ==
    {bind.sig[i].name : i \in OfKind(Kinds \ {"VAR_POSITIONAL", "VAR_KEYWORD"})}

\* C16 (under BindSpec): when a delivery is invoked on a bound callback, the
\* call is made; each named input receives the delivery's value for its
\* name if the delivery has one, else the callback's default (None if it has
\* none); nothing else of the delivery is passed, but that a **kwargs
\* receives the delivery's entries for the declared parameters of the event
\* that the callback does not name.
C16_Binding ==
    bind.call # "none" =>
        /\ bind.call = "called"
        /\ bind.received =
               {<<bind.sig[i].name,
                  IF bind.sig[i].name \in bind.delivery THEN "given"
                  ELSE IF bind.sig[i].default THEN "default" ELSE "None">> :
                    i \in OfKind(Kinds \ {"VAR_POSITIONAL", "VAR_KEYWORD"})}
        /\ bind.catchall =
               IF OfKind({"VAR_KEYWORD"}) = {} THEN {}
               ELSE {<<k, "given">> : k \in (bind.delivery \cap bind.params) \ NamedInputs}

\* C17: whenever a consumer loop dequeues a delivery for a name that is
\* registered at that moment, the handler is running: the delivery spawns
\* one task per callback and does not end the loop.
C17_HandlerRunning ==
    \A n \in 1..Len(dequeued) :
        dequeued[n].h # 0 =>
            /\ dequeued[n].hrunning
            /\ dequeued[n].ok
            /\ dequeued[n].spawned = dequeued[n].cbs

\* The consumer loops suspended in _resume_processing.wait().
WaitingRuns == {r \in 1..MaxRuns : runs[r] = "waiting"}

\* No consumer loop is suspended while a delivery is queued or while the
\* engine is not running: the trigger or the stop() has woken it.
NoSleeper == WaitingRuns # {} => (queue = <<>> /\ running)

\* C18 (as a safety property): no consumer loop is suspended while the queue
\* is not empty or the engine is not running, and when the engine is running
\* and nothing is scheduled on the event loop nor in flight, no delivery is
\* left in the queue; otherwise that delivery is not dequeued while the
\* engine stays running.
C18_NoLostWakeup ==
    /\ NoSleeper
    /\ (Quiescent /\ running) => queue = <<>>

\* An EventHandler.stop() of handler h has taken its snapshot of the tasks
\* and has not yet signalled shutdown-complete.
StopWaitsOnSnapshot(h) ==
    \E x \in 1..MaxHstops : hstops[x].h = h /\ hstops[x].pc = "wait_tasks"

\* A step in which handler h becomes running.
HandlerStarts(h) == ~eh[h].running /\ eh'[h].running

\* C19: a handler does not become running while a stop() of it still waits
\* on its snapshot of tasks: a start() made after a stop() has begun sets it
\* running only once that stop() has signalled shutdown-complete, and
\* whenever a handler becomes running both of its shutdown signals are clear.
C19_HandlerRestart ==
    [][\A h \in DOMAIN eh :
        HandlerStarts(h) =>
            /\ ~StopWaitsOnSnapshot(h)
            /\ eh[h].start_shutdown => eh[h].shutdown_complete
            /\ ~eh'[h].start_shutdown /\ ~eh'[h].shutdown_complete]_vars

\* A start() is suspended in EventHandler.start() of a handler whose stop()
\* waits on a snapshot with a task still in flight: the handler is not
\* running.
C19_Witness ==
    \E c \in 1..MaxCalls :
        /\ calls[c].op = "start" /\ calls[c].pc = "wait_handler"
        /\ StopWaitsOnSnapshot(calls[c].h)
        /\ ~eh[calls[c].h].running
        /\ \E t \in InFlight : tasks[t].h = calls[c].h

\* The tasks handler h has spawned, and those of them whose callback
\* invocation has not completed.
SpawnedBy(h) == {t \in DOMAIN tasks : tasks[t].h = h}
InFlightOf(h) == {t \in SpawnedBy(h) : tasks[t].st # "done"}

\* The completed tasks whose _task_done_callback is scheduled on the event
\* loop and has not run yet.
RemovalPending == {ready[n].i : n \in {m \in 1..Len(ready) : ready[m].k = "task_done"}}

\* C20 as stated: the outstanding-task set of every handler is exactly the
\* set of the invocations it has spawned that have not completed, and so
\* is empty exactly when the handler has no invocation in flight.
C20_TaskSetExact ==
    \A h \in DOMAIN eh : eh[h].tasks = InFlightOf(h)

\* C20, amended: the outstanding-task set of every handler holds the
\* invocations it has spawned that have not completed and, besides them,
\* only completed ones whose removal is scheduled and has not run yet (the
\* entry is removed by the task's done-callback, one step of the event loop
\* after the invocation completes); a set that is empty means that no
\* invocation is in flight; removing an absent entry changes nothing.
C20_TaskSet ==
    /\ \A h \in DOMAIN eh :
        /\ eh[h].tasks = InFlightOf(h) \cup (SpawnedBy(h) \cap RemovalPending)
        /\ eh[h].tasks = {} => InFlightOf(h) = {}
    /\ \A t \in DOMAIN tasks :
        /\ t \in RemovalPending => tasks[t].st = "done"
        /\ t \notin eh[tasks[t].h].tasks => TaskDoneCallback(State, t) = State

\* One invocation of a handler has completed and been removed from the set
\* while another one of the same handler is in flight and in the set.
C20_Witness ==
    \E h \in DOMAIN eh :
        /\ \E t \in SpawnedBy(h) : tasks[t].st = "done" /\ t \notin eh[h].tasks
        /\ \E t \in InFlightOf(h) : t \in eh[h].tasks

====
